---------------------------- MODULE Spec2Model ----------------------------
(***************************************************************************)
(* State-machine model of the PerspectiveTransform component               *)
(* (src/src/PerspectiveTransform.tsx): the component's React state and     *)
(* props, the container rectangle, localStorage, the document-level drag   *)
(* listeners, and the projective solver computeCssMatrix.                  *)
(*                                                                         *)
(* Numbers.  A JavaScript number is modelled as a pair <<n, d>>:           *)
(*   d > 0   the rational n/d in lowest terms (exact arithmetic stands in  *)
(*           for IEEE doubles),                                            *)
(*   <<0,0>> NaN,  <<1,0>> Infinity,  <<-1,0>> -Infinity.                  *)
(* A read of a property an object does not have (undefined) that is then   *)
(* used in arithmetic yields NaN, as in JavaScript.                        *)
(***************************************************************************)
EXTENDS Integers, Sequences, FiniteSets, TLC

(***************************************************************************)
(* JavaScript numbers                                                      *)
(***************************************************************************)
NaN    == <<0, 0>>
PosInf == <<1, 0>>
NegInf == <<-1, 0>>

Abs(n) == IF n < 0 THEN -n ELSE n

RECURSIVE GCD(_, _)
GCD(a, b) == IF b = 0 THEN a ELSE GCD(b, a % b)

\* The element of a one-element set.  A value that is used more than once
\* is bound as x in Only({ ... x ... : x \in {value} }), so that it is
\* computed once.
Only(S) == CHOOSE r \in S : TRUE

\* n/d in lowest terms with a positive denominator (d # 0)
Norm(n, d) ==
  Only({ << (IF d < 0 THEN -n ELSE n) \div g, Abs(d) \div g >> :
         g \in {GCD(Abs(n), Abs(d))} })

Num(i)      == <<i, 1>>
IsNaN(a)    == a = NaN
IsFinite(a) == a[2] > 0
IsZero(a)   == a[2] > 0 /\ a[1] = 0

\* a + b, a - b, a * b on finite numbers; NaN is contagious
NumAdd(a, b) ==
  Only({ IF ~IsFinite(x) \/ ~IsFinite(y) THEN NaN
         ELSE Only({ Norm(x[1] * (y[2] \div g) + y[1] * (x[2] \div g),
                          (x[2] \div g) * y[2]) : g \in {GCD(x[2], y[2])} }) :
         x \in {a}, y \in {b} })

NumNeg(a) == Only({ IF ~IsFinite(x) THEN NaN ELSE <<-x[1], x[2]>> : x \in {a} })

NumSub(a, b) == NumAdd(a, NumNeg(b))

NumMul(a, b) ==
  Only({ IF ~IsFinite(x) \/ ~IsFinite(y) THEN NaN
         ELSE Only({ << (x[1] \div g1) * (y[1] \div g2),
                        (x[2] \div g2) * (y[2] \div g1) >> :
                     g1 \in {GCD(Abs(x[1]), y[2])},
                     g2 \in {GCD(Abs(y[1]), x[2])} }) :
         x \in {a}, y \in {b} })

\* a / b as IEEE does it: x/0 is +-Infinity, 0/0 is NaN
NumDiv(a, b) ==
  Only({ IF ~IsFinite(x) \/ ~IsFinite(y) THEN NaN
         ELSE IF y[1] = 0
           THEN (IF x[1] > 0 THEN PosInf ELSE IF x[1] < 0 THEN NegInf ELSE NaN)
           ELSE NumMul(x, Norm(y[2], y[1])) :
         x \in {a}, y \in {b} })

\* a JavaScript array literal [e0, e1, ...]: indices start at 0
Arr(s) == Only({ [i \in 0..(Len(t) - 1) |-> t[i + 1]] : t \in {s} })

(***************************************************************************)
(* Corners.  A corner is a record [x, y] of integers; a value that is not  *)
(* an object with x and y (such as `true` read back from storage) has no   *)
(* such fields, and its coordinates read as undefined.                     *)
(***************************************************************************)
CornerNames == {"topLeft", "topRight", "bottomRight", "bottomLeft"}

Pt(x, y) == [x |-> x, y |-> y]

CornerX(c) == Only({ IF "x" \in DOMAIN p THEN Num(p.x) ELSE NaN : p \in {c} })
CornerY(c) == Only({ IF "y" \in DOMAIN p THEN Num(p.y) ELSE NaN : p \in {c} })

(***************************************************************************)
(* computeCssMatrix and its local functions                                *)
(***************************************************************************)
Null == <<>>

\* det of the 3x3 matrix A (row-major), by cofactors along the first row
det3(A) ==
  Only({ NumAdd(
           NumSub(
             NumMul(m[0], NumSub(NumMul(m[4], m[8]), NumMul(m[5], m[7]))),
             NumMul(m[1], NumSub(NumMul(m[3], m[8]), NumMul(m[5], m[6])))),
           NumMul(m[2], NumSub(NumMul(m[3], m[7]), NumMul(m[4], m[6])))) :
         m \in {A} })

\* an adjugate with the sign of one cofactor reversed
adjSignError(m0) ==
  Only({ Arr(<< NumSub(NumMul(m[4], m[8]), NumMul(m[5], m[7])),
                NumSub(NumMul(m[2], m[7]), NumMul(m[1], m[8])),
                NumSub(NumMul(m[1], m[5]), NumMul(m[2], m[4])),
                NumSub(NumMul(m[5], m[6]), NumMul(m[3], m[8])),
                NumSub(NumMul(m[0], m[8]), NumMul(m[2], m[6])),
                NumSub(NumMul(m[0], m[5]), NumMul(m[2], m[3])),
                NumSub(NumMul(m[3], m[7]), NumMul(m[4], m[6])),
                NumSub(NumMul(m[1], m[6]), NumMul(m[0], m[7])),
                NumSub(NumMul(m[0], m[4]), NumMul(m[1], m[3])) >>) :
         m \in {m0} })

adj(m0) ==
  Only({ Arr(<< NumSub(NumMul(m[4], m[8]), NumMul(m[5], m[7])),
                NumSub(NumMul(m[2], m[7]), NumMul(m[1], m[8])),
                NumSub(NumMul(m[1], m[5]), NumMul(m[2], m[4])),
                NumSub(NumMul(m[5], m[6]), NumMul(m[3], m[8])),
                NumSub(NumMul(m[0], m[8]), NumMul(m[2], m[6])),
                NumSub(NumMul(m[2], m[3]), NumMul(m[0], m[5])),
                NumSub(NumMul(m[3], m[7]), NumMul(m[4], m[6])),
                NumSub(NumMul(m[1], m[6]), NumMul(m[0], m[7])),
                NumSub(NumMul(m[0], m[4]), NumMul(m[1], m[3])) >>) :
         m \in {m0} })

\* adj(A) scaled by invDet, times b
solveWith(a0, invDet, b) ==
  Only({ Arr(<< NumAdd(NumAdd(NumMul(adjA[0], v[0]), NumMul(adjA[1], v[1])),
                       NumMul(adjA[2], v[2])),
                NumAdd(NumAdd(NumMul(adjA[3], v[0]), NumMul(adjA[4], v[1])),
                       NumMul(adjA[5], v[2])),
                NumAdd(NumAdd(NumMul(adjA[6], v[0]), NumMul(adjA[7], v[1])),
                       NumMul(adjA[8], v[2])) >>) :
         adjA \in { Arr([i \in 1..9 |-> NumMul(a[i - 1], inv)]) :
                    a \in {a0}, inv \in {invDet} },
         v \in {b} })

\* solve(A, b): null when det === 0 (NaN === 0 is false), else adj(A)/det * b
solve(A, b) ==
  Only({ IF IsZero(det) THEN Null
         ELSE solveWith(adj(m), NumDiv(Num(1), det), b) :
         m \in {A}, det \in {det3(A)} })

multmm(a0, b0) ==
  Only({ [n \in 0..8 |->
            NumAdd(NumAdd(NumAdd(Num(0), NumMul(a[3 * (n \div 3)], b[n % 3])),
                          NumMul(a[3 * (n \div 3) + 1], b[3 + (n % 3)])),
                   NumMul(a[3 * (n \div 3) + 2], b[6 + (n % 3)]))] :
         a \in {a0}, b \in {b0} })

basisToPoints(p1, p2, p3, p4) ==
  Only({ Only({ IF s = Null THEN Null
                ELSE [i \in 0..8 |-> NumMul(m[i], s[i % 3])] :
                s \in { solve(m, Arr(<< CornerX(p4), CornerY(p4), Num(1) >>)) } }) :
         m \in { Arr(<< CornerX(p1), CornerX(p2), CornerX(p3),
                        CornerY(p1), CornerY(p2), CornerY(p3),
                        Num(1), Num(1), Num(1) >>) } })

\* a normalising loop that stops before the last entry
normalizeFirstEight(m) ==
  Only({ [i \in 0..8 |-> IF i < 8 THEN NumDiv(m3[i], m3[8]) ELSE m3[8]] :
         m3 \in {m} })

\* the normalising loop: m3[i] /= m3[8] for i = 0..8, so entries 0..7 are
\* divided by the original m3[8] and entry 8 by itself
normalize(m) == Only({ [i \in 0..8 |-> NumDiv(m3[i], m3[8])] : m3 \in {m} })

\* the 4x4 embedding of the normalised 3x3 matrix
matrix3d(m) ==
  Only({ << m3[0], m3[3], Num(0), m3[6],
            m3[1], m3[4], Num(0), m3[7],
            Num(0), Num(0), Num(1), Num(0),
            m3[2], m3[5], Num(0), m3[8] >> : m3 \in {m} })

\* The transform string.  "" is the empty sequence; `matrix3d(a,b,...)` is
\* the sequence of its sixteen printed entries (printing is one-to-one on
\* the numbers modelled here: no signed zero is kept).
EmptyMatrix == <<>>

computeCssMatrix(srcPoints, dstPoints) ==
  Only({ IF m1 = Null \/ m2 = Null THEN EmptyMatrix
         ELSE matrix3d(normalize(multmm(m2, adj(m1)))) :
         m1 \in { Only({ basisToPoints(p[0], p[1], p[2], p[3]) : p \in {srcPoints} }) },
         m2 \in { Only({ basisToPoints(p[0], p[1], p[2], p[3]) : p \in {dstPoints} }) } })

(***************************************************************************)
(* Values of the component                                                 *)
(***************************************************************************)
\* a prop that was not passed, a property an object lacks
Undefined == [undefined |-> TRUE]

\* storageKey not passed (a falsy key)
NoKey == ""

DefaultSide == 100

\* the initial value of useState<Points> when no points prop is passed
DefaultPoints ==
  [topLeft     |-> Pt(0, 0),
   topRight    |-> Pt(DefaultSide, 0),
   bottomRight |-> Pt(DefaultSide, DefaultSide),
   bottomLeft  |-> Pt(0, DefaultSide)]

\* values a JSON document can hold in place of a corner
JsonTrue == [json |-> "true"]
JsonNull == [json |-> "null"]

\* JavaScript truthiness of a value read from a parsed document
Truthy(v) == v # Undefined /\ v # JsonNull

\* obj[name], undefined when the object has no such member
Member(obj, name) == IF name \in DOMAIN obj THEN obj[name] ELSE Undefined

(***************************************************************************)
(* localStorage.  An item is                                               *)
(*   [kind |-> "none"]      no item under the key (getItem gives null)     *)
(*   [kind |-> "empty"]     the empty string                               *)
(*   [kind |-> "garbage"]   text JSON.parse throws on                      *)
(*   [kind |-> "null"]      the JSON text null                             *)
(*   [kind |-> "number"]    a JSON number                                  *)
(*   [kind |-> "object", members |-> r]   a JSON object with members r     *)
(***************************************************************************)
NoItem      == [kind |-> "none"]
EmptyText   == [kind |-> "empty"]
GarbageText == [kind |-> "garbage"]
NullText    == [kind |-> "null"]
NumberText  == [kind |-> "number"]
ObjectText(r) == [kind |-> "object", members |-> r]

\* JSON.stringify(points): the object text with the members of points
JSONstringify(pts) == ObjectText(pts)

(***************************************************************************)
(* Bounds and inputs of the model                                          *)
(***************************************************************************)
\* events processed after mount
MaxEvents == 3
\* mousemove/mouseup listener pairs registered on the document at once
MaxListeners == 2

\* largest coordinate of the corners passed to computeCssMatrix directly
MaxCoord == 2

Keys == {"K1", "K2"}

Size(w, h) == [width |-> w, height |-> h]

\* container rectangles the layout can produce
Sizes == {Size(0, 0), Size(200, 100), Size(100, 100)}

\* rect.left, rect.top of the container in client coordinates
ContainerOrigin == Pt(10, 10)

\* pointer positions (clientX, clientY) of mousemove events
ClientPositions == {Pt(190, 30), Pt(10, 10), Pt(110, 10)}

\* values the caller passes as the points prop
CallerPoints ==
  { [topLeft |-> Pt(0, 0), topRight |-> Pt(200, 0),
     bottomRight |-> Pt(200, 100), bottomLeft |-> Pt(0, 100)],
    [topLeft |-> Pt(20, 0), topRight |-> Pt(180, 20),
     bottomRight |-> Pt(200, 100), bottomLeft |-> Pt(0, 80)] }

\* a well-formed stored value
StoredPoints ==
  [topLeft |-> Pt(10, 10), topRight |-> Pt(190, 0),
   bottomRight |-> Pt(200, 100), bottomLeft |-> Pt(0, 90)]


(***************************************************************************)
(* State                                                                   *)
(***************************************************************************)
VARIABLES
  controlledPoints,  \* prop points: Undefined or a Points record
  storageKey,        \* prop storageKey: NoKey or a key
  editable,          \* prop editable: "undefined", "true" or "false"
  onEditableChange,  \* prop onEditableChange is passed
  onPointsChange,    \* prop onPointsChange is passed
  toggleKeys,        \* prop toggleKeys: a set of key names
  points,            \* useState points
  localEditable,     \* useState localEditable
  hasHydrated,       \* useState hasHydrated
  matrix,            \* useState matrix: the transform string
  rect,              \* the container's rectangle (width, height)
  reported,          \* the size the ResizeObserver last passed to its callback
  store,             \* localStorage: key -> item
  listeners,         \* the onMove/onUp closures registered on the document
  firstOp,           \* history: the first access made to each key since mount
  loaded,            \* history: a stored value was taken as the points
  last,              \* history: the event just processed and its callbacks
  steps,             \* events processed since mount
  srcPoints,         \* the first argument of a call of computeCssMatrix
  dstPoints,         \* the second argument of the call
  returned           \* the strings the call has returned: none or one

vars == << controlledPoints, storageKey, editable, onEditableChange,
           onPointsChange, toggleKeys, points, localEditable, hasHydrated,
           matrix, rect, reported, store, listeners, firstOp, loaded, last, steps,
          srcPoints, dstPoints, returned >>

(***************************************************************************)
(* Render and effects.  A fiber record w holds what one render of the      *)
(* component sees: the props cp, key; the state points, hasHydrated,       *)
(* matrix; the container rect, the observer and the store; changed, which  *)
(* records that an effect of this commit called setPoints with a new       *)
(* object; and the history: firstOp, loaded, and load, the value the load  *)
(* effect read during this event and the points it found.                  *)
(***************************************************************************)
isEditMode(ed, loc) == IF ed # "undefined" THEN ed = "true" ELSE loc

\* a save effect that writes only while the key holds nothing
saveEffectOnce(w0) ==
  Only({ IF w.key # NoKey /\ w.hasHydrated /\ w.store[w.key] = NoItem
           THEN [w EXCEPT !.store[w.key] = JSONstringify(w.points),
                          !.firstOp[w.key] = IF @ = "none" THEN "set" ELSE @]
           ELSE w :
         w \in {w0} })

\* the save effect, deps [points, storageKey, hasHydrated]
saveEffect(w0) ==
  Only({ IF w.key # NoKey /\ w.hasHydrated
           THEN [w EXCEPT !.store[w.key] = JSONstringify(w.points),
                          !.firstOp[w.key] = IF @ = "none" THEN "set" ELSE @]
           ELSE w :
         w \in {w0} })

\* the controlled-points effect, deps [controlledPoints]; at mount the state
\* already holds the very object passed, so setPoints changes nothing
controlledEffect(w0, mount) ==
  Only({ IF w.cp # Undefined /\ ~mount
           THEN [w EXCEPT !.points = w.cp, !.changed = TRUE]
           ELSE w :
         w \in {w0} })

\* JSON.parse(saved) throws, or reading parsed.topLeft throws (parsed is null)
parseThrows(saved) == saved.kind \in {"garbage", "null"}

\* the members of the parsed value (a number has none)
parsedMembers(saved) == IF saved.kind = "object" THEN saved.members ELSE <<>>

\* parsed.topLeft && parsed.topRight && parsed.bottomRight && parsed.bottomLeft
hasFourCorners(parsed) ==
  /\ Truthy(Member(parsed, "topLeft"))
  /\ Truthy(Member(parsed, "topRight"))
  /\ Truthy(Member(parsed, "bottomRight"))
  /\ Truthy(Member(parsed, "bottomLeft"))

\* if (saved) { try { ... setPoints(parsed) } catch {} }: the stored value
\* is taken as the points
acceptsStored(saved) ==
  /\ saved.kind \notin {"none", "empty"}
  /\ ~parseThrows(saved)
  /\ hasFourCorners(parsedMembers(saved))

\* a load effect that returns early only when there is no key
loadEffectControlled(w0) ==
  Only({ IF w.key = NoKey THEN w
         ELSE Only({ [w EXCEPT
                        !.firstOp[w.key] = IF @ = "none" THEN "get" ELSE @,
                        !.points = IF acceptsStored(saved)
                                     THEN parsedMembers(saved) ELSE @,
                        !.changed = acceptsStored(saved) \/ @,
                        !.loaded = acceptsStored(saved) \/ @,
                        !.hasHydrated = TRUE,
                        !.load = [saved |-> saved, before |-> w.points]] :
                     saved \in {w.store[w.key]} }) :
         w \in {w0} })

\* the load effect, deps [storageKey, controlledPoints]
loadEffect(w0) ==
  Only({ IF w.cp # Undefined \/ w.key = NoKey THEN w
         ELSE Only({ [w EXCEPT
                        !.firstOp[w.key] = IF @ = "none" THEN "get" ELSE @,
                        !.points = IF acceptsStored(saved)
                                     THEN parsedMembers(saved) ELSE @,
                        !.changed = acceptsStored(saved) \/ @,
                        !.loaded = acceptsStored(saved) \/ @,
                        !.hasHydrated = TRUE,
                        !.load = [saved |-> saved, before |-> w.points]] :
                     saved \in {w.store[w.key]} }) :
         w \in {w0} })

\* an observer effect that returns early only for controlled points
observerConnectedUnhydrated(cp, hyd) == cp = Undefined

\* the ResizeObserver effect, deps [controlledPoints, hasHydrated]: an
\* observer is connected exactly when the effect did not return early
observerConnected(cp, hyd) == cp = Undefined /\ ~hyd

\* The effect disconnects the old observer and, unless it returns early,
\* observes with a new one.  A new observer has reported no size yet: it
\* calls back once the container's size differs from 0 x 0.
observerEffect(w) == [w EXCEPT !.reported = Size(0, 0)]

\* the updater passed to setPoints by the observer's callback
autoFit(prevPoints, width, height) ==
  [prevPoints EXCEPT !.topRight    = Pt(width, 0),
                     !.bottomRight = Pt(width, height),
                     !.bottomLeft  = Pt(0, height)]

\* srcCorners for the container rectangle r
srcCorners(r) ==
  Arr(<< Pt(0, 0), Pt(r.width, 0), Pt(r.width, r.height), Pt(0, r.height) >>)

\* dstCorners for the points pts
dstCorners(pts) ==
  Arr(<< pts.topLeft, pts.topRight, pts.bottomRight, pts.bottomLeft >>)

\* the matrix effect, deps [points]
matrixEffect(w0) ==
  Only({ IF w.rect.width = 0 \/ w.rect.height = 0 THEN w
         ELSE [w EXCEPT !.matrix = computeCssMatrix(srcCorners(w.rect),
                                                    dstCorners(w.points))] :
         w \in {w0} })

\* which dependencies changed in a render
Deps(p, k, h, c, m) == [points |-> p, key |-> k, hyd |-> h, cp |-> c, mount |-> m]

\* The i-th effect of a commit: the layout effects, then the passive
\* effects, in the order the hooks are declared.  An effect runs when one of
\* its deps changed.
runEffect(i, w0, d0) ==
  Only({ CASE i = 1 -> IF d.cp \/ d.hyd THEN observerEffect(w) ELSE w
           [] i = 2 -> IF d.points THEN matrixEffect(w) ELSE w
           [] i = 3 -> IF d.points \/ d.key \/ d.hyd THEN saveEffect(w) ELSE w
           [] i = 4 -> IF d.cp THEN controlledEffect(w, d.mount) ELSE w
           [] i = 5 -> IF d.key \/ d.cp THEN loadEffect(w) ELSE w :
         w \in {w0}, d \in {d0} })

\* the effects from the i-th on
RECURSIVE runEffects(_, _, _)
runEffects(i, w0, d0) ==
  IF i > 5 THEN w0 ELSE runEffects(i + 1, runEffect(i, w0, d0), d0)

\* One commit.  The effects read the props and state of this render; the
\* state they set is seen by the next render.
Commit(w0, d0) == runEffects(1, [w0 EXCEPT !.changed = FALSE], d0)

\* Renders and commits until no effect has set state: after a commit, the
\* next render sees new points if an effect called setPoints, and a new
\* hasHydrated if the load effect set it.
RECURSIVE Settle(_, _)
Settle(w0, d0) ==
  Only({ IF ~(d.points \/ d.key \/ d.hyd \/ d.cp) THEN w
         ELSE Only({ Settle(w1, Deps(w1.changed, FALSE,
                                     w1.hasHydrated # w.hasHydrated, FALSE, FALSE)) :
                     w1 \in {Commit(w, d)} }) :
         w \in {w0}, d \in {d0} })

\* the load effect did not read the store during the event
NoLoad == [saved |-> [kind |-> "unread"], before |-> Undefined]

Fiber == [cp |-> controlledPoints, key |-> storageKey, points |-> points,
          hasHydrated |-> hasHydrated, matrix |-> matrix, rect |-> rect,
          reported |-> reported, store |-> store, firstOp |-> firstOp,
          loaded |-> loaded, load |-> NoLoad, changed |-> FALSE]

\* the record of an event: its name, the corners whose listeners ran, the
\* arguments of the onPointsChange and onEditableChange calls it made, the
\* key pressed, and what the load effect read
Event(name, corners, changes, edits) ==
  [ev |-> name, corners |-> corners, changes |-> changes, edits |-> edits,
   shift |-> FALSE, key |-> "", load |-> NoLoad]

\* the component's variables after an event that left the fiber w
Becomes(w, name, corners, changes) ==
  /\ controlledPoints' = w.cp
  /\ storageKey' = w.key
  /\ points' = w.points
  /\ hasHydrated' = w.hasHydrated
  /\ matrix' = w.matrix
  /\ rect' = w.rect
  /\ reported' = w.reported
  /\ store' = w.store
  /\ firstOp' = w.firstOp
  /\ loaded' = w.loaded
  /\ last' = [Event(name, corners, changes, <<>>) EXCEPT !.load = w.load]
  /\ steps' = steps + 1

(***************************************************************************)
(* Mount: the first render with its effects                                *)
(***************************************************************************)
MountFiber(cp, key, size, items) ==
  Settle([cp |-> cp, key |-> key,
          points |-> IF cp # Undefined THEN cp ELSE DefaultPoints,
          hasHydrated |-> FALSE, matrix |-> EmptyMatrix,
          rect |-> size, reported |-> Size(0, 0), store |-> items,
          firstOp |-> [k \in Keys |-> "none"], loaded |-> FALSE,
          load |-> NoLoad, changed |-> FALSE],
         Deps(TRUE, TRUE, TRUE, TRUE, TRUE))

Mounted(cp, key, size, items) ==
  \E w \in {MountFiber(cp, key, size, items)} :
    /\ controlledPoints = w.cp
    /\ storageKey = w.key
    /\ points = w.points
    /\ hasHydrated = w.hasHydrated
    /\ matrix = w.matrix
    /\ rect = w.rect
    /\ reported = w.reported
    /\ store = w.store
    /\ firstOp = w.firstOp
    /\ loaded = w.loaded
    /\ localEditable = FALSE
    /\ listeners = <<>>
    /\ last = [Event("mount", {}, <<>>, <<>>) EXCEPT !.load = w.load]
    /\ steps = 0

(***************************************************************************)
(* Events                                                                  *)
(***************************************************************************)
Call == << srcPoints, dstPoints, returned >>
\* the specification follows no call of computeCssMatrix on its own
NoCall == srcPoints = <<>> /\ dstPoints = <<>> /\ returned = <<>>

Props == << controlledPoints, storageKey >>
EditProps == << editable, onEditableChange, onPointsChange, toggleKeys >>

\* the ResizeObserver callback with entry.contentRect = size
observerCallback(w0, size) ==
  Only({ IF size.width > 0 /\ size.height > 0
           THEN Settle([w EXCEPT !.reported = size,
                                 !.points = autoFit(w.points, size.width, size.height)],
                       Deps(TRUE, FALSE, FALSE, FALSE, FALSE))
           ELSE [w EXCEPT !.reported = size] :
         w \in {w0} })

\* The layout gives the container a new size; a connected observer calls back.
Resize(size) ==
  /\ steps < MaxEvents
  /\ size # rect
  /\ \E w \in { IF observerConnected(controlledPoints, hasHydrated)
                  THEN observerCallback([Fiber EXCEPT !.rect = size], size)
                  ELSE [Fiber EXCEPT !.rect = size] } :
       Becomes(w, "resize", {}, <<>>)
  /\ UNCHANGED << Call, EditProps, localEditable, listeners >>

\* A new observer reports the size of the container it was given.
Notify ==
  /\ steps < MaxEvents
  /\ observerConnected(controlledPoints, hasHydrated)
  /\ reported # rect
  /\ \E w \in { observerCallback(Fiber, rect) } : Becomes(w, "resize", {}, <<>>)
  /\ UNCHANGED << Call, EditProps, localEditable, listeners >>

\* handleDrag: mousedown on the handle of a corner, rendered in edit mode;
\* onMove closes over corner and over the points of this render
DragStart(corner) ==
  /\ steps < MaxEvents
  /\ isEditMode(editable, localEditable)
  /\ Len(listeners) < MaxListeners
  /\ listeners' = Append(listeners, [corner |-> corner, points |-> points])
  /\ last' = Event("down", {corner}, <<>>, <<>>)
  /\ steps' = steps + 1
  /\ UNCHANGED << Call, Props, EditProps, points, localEditable, hasHydrated, matrix,
                  rect, reported, store, firstOp, loaded >>

\* updatedPoints of one onMove closure for a mousemove at client
onMove(l, client) ==
  [l.points EXCEPT ![l.corner] = Pt(client.x - ContainerOrigin.x,
                                    client.y - ContainerOrigin.y)]

\* mousemove on the document: every registered onMove runs, in the order of
\* registration; each calls setPoints and onPointsChange
DragMove(client) ==
  /\ steps < MaxEvents
  /\ listeners # <<>>
  /\ \E updated \in { [i \in 1..Len(listeners) |-> onMove(listeners[i], client)] } :
       \E w \in { Settle([Fiber EXCEPT !.points = updated[Len(updated)]],
                         Deps(TRUE, FALSE, FALSE, FALSE, FALSE)) } :
         Becomes(w, "move", {listeners[i].corner : i \in 1..Len(listeners)},
                 IF onPointsChange THEN updated ELSE <<>>)
  /\ UNCHANGED << Call, EditProps, localEditable, listeners >>

\* mousemove on the document while no onMove is registered (before any
\* mousedown on a handle, after a mouseup): no code of the component runs
MouseMoveUnheard ==
  /\ steps < MaxEvents
  /\ listeners = <<>>
  /\ last' = Event("move", {}, <<>>, <<>>)
  /\ steps' = steps + 1
  /\ UNCHANGED << Call, Props, EditProps, points, localEditable, hasHydrated, matrix,
                  rect, reported, store, listeners, firstOp, loaded >>

\* mouseup on the document: every onUp removes its pair of listeners
DragEnd ==
  /\ steps < MaxEvents
  /\ listeners # <<>>
  /\ listeners' = <<>>
  /\ last' = Event("up", {}, <<>>, <<>>)
  /\ steps' = steps + 1
  /\ UNCHANGED << Call, Props, EditProps, points, localEditable, hasHydrated, matrix,
                  rect, reported, store, firstOp, loaded >>

\* The caller renders the component with another points prop: a new object,
\* or none.
SetControlledPoints(p) ==
  /\ steps < MaxEvents
  /\ ~(p = Undefined /\ controlledPoints = Undefined)
  /\ \E w \in { Settle([Fiber EXCEPT !.cp = p],
                       Deps(FALSE, FALSE, FALSE, TRUE, FALSE)) } :
       Becomes(w, "points", {}, <<>>)
  /\ UNCHANGED << Call, EditProps, localEditable, listeners >>

\* The caller renders the component with another storageKey prop.
SetStorageKey(k) ==
  /\ steps < MaxEvents
  /\ k # storageKey
  /\ \E w \in { Settle([Fiber EXCEPT !.key = k],
                       Deps(FALSE, TRUE, FALSE, FALSE, FALSE)) } :
       Becomes(w, "storageKey", {}, <<>>)
  /\ UNCHANGED << Call, EditProps, localEditable, listeners >>

\* e.key.toLowerCase() on the key names of the model
toLowerCase(k) ==
  CASE k = "P"      -> "p"
    [] k = "Escape" -> "escape"
    [] OTHER        -> k

\* handleKeyDown: keydown on the window.  The listener is registered again
\* after every render in which isEditMode changed, so it sees the current
\* value.
KeyDown(shift, key) ==
  /\ steps < MaxEvents
  /\ IF shift /\ toLowerCase(key) \in toggleKeys
       THEN IF onEditableChange
              THEN /\ last' = [Event("keydown", {}, <<>>,
                                     << ~isEditMode(editable, localEditable) >>)
                                 EXCEPT !.shift = shift, !.key = key]
                   /\ UNCHANGED localEditable
              ELSE /\ localEditable' = ~localEditable
                   /\ last' = [Event("keydown", {}, <<>>, <<>>)
                                 EXCEPT !.shift = shift, !.key = key]
       ELSE /\ last' = [Event("keydown", {}, <<>>, <<>>)
                          EXCEPT !.shift = shift, !.key = key]
            /\ UNCHANGED localEditable
  /\ steps' = steps + 1
  /\ UNCHANGED << Call, Props, EditProps, points, hasHydrated, matrix, rect, reported,
                  store, listeners, firstOp, loaded >>

\* The caller renders the component with another editable prop.
SetEditable(e) ==
  /\ steps < MaxEvents
  /\ e # editable
  /\ editable' = e
  /\ last' = Event("editable", {}, <<>>, <<>>)
  /\ steps' = steps + 1
  /\ UNCHANGED << Call, Props, onEditableChange, onPointsChange, toggleKeys, points,
                  localEditable, hasHydrated, matrix, rect, reported, store,
                  listeners, firstOp, loaded >>

(***************************************************************************)
(* The session: a component in edit mode, its container, its caller and    *)
(* the pointer.                                                            *)
(***************************************************************************)
SessionItems == {NoItem, ObjectText(StoredPoints)}

Init ==
  /\ NoCall
  /\ editable = "true"
  /\ onEditableChange = FALSE
  /\ onPointsChange = TRUE
  /\ toggleKeys = {"p"}
  /\ \E cp \in {Undefined} \cup CallerPoints, key \in {NoKey, "K1"},
        size \in Sizes, item \in SessionItems :
       Mounted(cp, key, size, [k \in Keys |-> IF k = "K1" THEN item
                                              ELSE ObjectText(StoredPoints)])

Next ==
  \/ \E size \in Sizes : Resize(size)
  \/ Notify
  \/ \E corner \in CornerNames : DragStart(corner)
  \/ \E client \in ClientPositions : DragMove(client)
  \/ DragEnd
  \/ \E p \in {Undefined} \cup CallerPoints : SetControlledPoints(p)
  \/ \E k \in {NoKey} \cup Keys : SetStorageKey(k)

Spec == Init /\ [][Next]_vars

(***************************************************************************)
(* Persistence: the same events, over every kind of stored item, in a      *)
(* container of one size.                                                  *)
(***************************************************************************)
\* stored objects that are not four corners
PartialObject == ObjectText([topLeft |-> Pt(10, 10), topRight |-> Pt(190, 0)])
NullCorner ==
  ObjectText([topLeft |-> Pt(10, 10), topRight |-> Pt(190, 0),
              bottomRight |-> Pt(200, 100), bottomLeft |-> JsonNull])
NotCorners ==
  ObjectText([topLeft |-> JsonTrue, topRight |-> JsonTrue,
              bottomRight |-> JsonTrue, bottomLeft |-> JsonTrue])

StoreItems == {NoItem, EmptyText, GarbageText, NullText, NumberText,
               PartialObject, NullCorner, NotCorners, ObjectText(StoredPoints)}

InitStore ==
  /\ NoCall
  /\ editable = "true"
  /\ onEditableChange = FALSE
  /\ onPointsChange = TRUE
  /\ toggleKeys = {"p"}
  /\ \E cp \in {Undefined} \cup CallerPoints, key \in {NoKey, "K1"},
        item \in StoreItems :
       Mounted(cp, key, Size(200, 100),
               [k \in Keys |-> IF k = "K1" THEN item
                               ELSE ObjectText(StoredPoints)])

SpecStore == InitStore /\ [][Next]_vars

(***************************************************************************)
(* Edit mode: the keyboard, the caller's editable prop and the pointer,    *)
(* on a component with neither points nor storageKey.                      *)
(***************************************************************************)
PressedKeys == {"p", "P", "Escape", "q"}

ToggleKeySets == {{"p"}, {"p", "e"}, {"Escape"}}

InitEdit ==
  /\ NoCall
  /\ editable \in {"undefined", "true", "false"}
  /\ onEditableChange \in BOOLEAN
  /\ onPointsChange = TRUE
  /\ toggleKeys \in ToggleKeySets
  /\ Mounted(Undefined, NoKey, Size(200, 100), [k \in Keys |-> NoItem])

NextEdit ==
  \/ \E shift \in BOOLEAN, key \in PressedKeys : KeyDown(shift, key)
  \/ \E e \in {"undefined", "true", "false"} : SetEditable(e)
  \/ \E corner \in CornerNames : DragStart(corner)
  \/ \E client \in ClientPositions : DragMove(client)
  \/ MouseMoveUnheard
  \/ DragEnd

SpecEdit == InitEdit /\ [][NextEdit]_vars

(***************************************************************************)
(* Controlled points: a caller that supplies the points at mount and in    *)
(* every later render, with or without a storage key.                      *)
(***************************************************************************)
InitControlled ==
  /\ NoCall
  /\ editable = "true"
  /\ onEditableChange = FALSE
  /\ onPointsChange = TRUE
  /\ toggleKeys = {"p"}
  /\ \E cp \in CallerPoints, key \in {NoKey, "K1"}, size \in Sizes,
        item \in SessionItems :
       Mounted(cp, key, size, [k \in Keys |-> IF k = "K1" THEN item
                                              ELSE ObjectText(StoredPoints)])

NextControlled ==
  \/ \E size \in Sizes : Resize(size)
  \/ \E corner \in CornerNames : DragStart(corner)
  \/ \E client \in ClientPositions : DragMove(client)
  \/ DragEnd
  \/ \E p \in CallerPoints : SetControlledPoints(p)
  \/ \E k \in {NoKey} \cup Keys : SetStorageKey(k)

SpecControlled == InitControlled /\ [][NextControlled]_vars

(***************************************************************************)
(* computeCssMatrix on its own: one call, with the arguments drawn from    *)
(* the quadrilaterals of a small grid.                                     *)
(***************************************************************************)
Grid == { Pt(x, y) : x, y \in 0..MaxCoord }

Quads == { Arr(<< a, b, c, d >>) : a, b, c, d \in Grid }

\* the source corners of the containers with sides 1..MaxCoord
Rects == { srcCorners(Size(w, h)) : w, h \in 1..MaxCoord }

\* a 200 x 100 container whose topRight was dragged to (180, 20)
ExampleCall ==
  << srcCorners(Size(200, 100)),
     dstCorners([topLeft |-> Pt(0, 0), topRight |-> Pt(180, 20),
                 bottomRight |-> Pt(200, 100), bottomLeft |-> Pt(0, 100)]) >>

\* a container's rectangle onto any quadrilateral, any quadrilateral onto
\* the unit square, any quadrilateral onto itself
Calls ==
  (Rects \X Quads)
    \cup { << q, srcCorners(Size(1, 1)) >> : q \in Quads }
    \cup { << q, q >> : q \in Quads }
    \cup { ExampleCall }

InitCall ==
  /\ editable = "true"
  /\ onEditableChange = FALSE
  /\ onPointsChange = TRUE
  /\ toggleKeys = {"p"}
  /\ Mounted(Undefined, NoKey, Size(0, 0), [k \in Keys |-> NoItem])
  /\ \E call \in Calls : srcPoints = call[1] /\ dstPoints = call[2]
  /\ returned = <<>>

\* the call returns
CallReturns ==
  /\ returned = <<>>
  /\ returned' = << computeCssMatrix(srcPoints, dstPoints) >>
  /\ UNCHANGED << Props, EditProps, points, localEditable, hasHydrated, matrix,
                  rect, reported, store, listeners, firstOp, loaded, last,
                  steps, srcPoints, dstPoints >>

NextCall == CallReturns

SpecCall == InitCall /\ [][NextCall]_vars

(***************************************************************************)
(* Vocabulary of the properties                                            *)
(***************************************************************************)
\* every corner of pts is a position with both coordinates
WellFormed(pts) ==
  \A c \in CornerNames :
    c \in DOMAIN pts /\ "x" \in DOMAIN pts[c] /\ "y" \in DOMAIN pts[c]

Collinear(a, b, c) == (b.x - a.x) * (c.y - a.y) = (b.y - a.y) * (c.x - a.x)

\* three corners of the quadrilateral lie on one line (or coincide)
Degenerate(pts) ==
  \E skipped \in CornerNames :
    \E a, b, c \in CornerNames \ {skipped} :
      a # b /\ b # c /\ a # c /\ Collinear(pts[a], pts[b], pts[c])

\* a render matrix that is applied: not the empty string, every entry finite
ValidMatrix(m) == m # EmptyMatrix /\ \A i \in DOMAIN m : IsFinite(m[i])

NonZero(r) == r.width > 0 /\ r.height > 0

\* the axis-aligned rectangle of a container of size r
Rectangle(r) ==
  [topLeft |-> Pt(0, 0), topRight |-> Pt(r.width, 0),
   bottomRight |-> Pt(r.width, r.height), bottomLeft |-> Pt(0, r.height)]

\* a stored text that holds four corners with their coordinates
FourCornersStored(saved) == saved.kind = "object" /\ WellFormed(saved.members)

\* Shift held and one of the configured toggle keys pressed, in either case
ToggleChord(shift, key) ==
  shift /\ (key \in toggleKeys \/ toLowerCase(key) \in toggleKeys)

\* H = B_dst * adj(B_src) before the normalising loop (m3 as multmm
\* returns it), for quadrilaterals whose first three corners are not on a line
unnormalized(src, dst) ==
  multmm(basisToPoints(dst[0], dst[1], dst[2], dst[3]),
         adj(basisToPoints(src[0], src[1], src[2], src[3])))

\* three of the four corners of the array q lie on one line (or coincide)
QuadDegenerate(q) ==
  \E i, j, k \in 0..3 : i < j /\ j < k /\ Collinear(q[i], q[j], q[k])

\* q is the array of source corners of a container with non-zero sides
IsSourceRectangle(q) ==
  /\ q[1].x > 0 /\ q[3].y > 0
  /\ q = srcCorners(Size(q[1].x, q[3].y))

\* The transform matrix3d(t[1], ..., t[16]), its entries in column-major
\* order, takes the point p of the element's plane to q: the homogeneous
\* image of (p.x, p.y, 0, 1), divided by its last coordinate, is (q.x, q.y).
MapsTo(t, p, q) ==
  \E w \in { NumAdd(NumAdd(NumMul(t[4], Num(p.x)), NumMul(t[8], Num(p.y))), t[16]) } :
    /\ IsFinite(w) /\ ~IsZero(w)
    /\ NumDiv(NumAdd(NumAdd(NumMul(t[1], Num(p.x)), NumMul(t[5], Num(p.y))), t[13]), w)
         = Num(q.x)
    /\ NumDiv(NumAdd(NumAdd(NumMul(t[2], Num(p.x)), NumMul(t[6], Num(p.y))), t[14]), w)
         = Num(q.y)

Identity3 == [i \in 0..8 |-> Num(IF i \in {0, 4, 8} THEN 1 ELSE 0)]

Identity4 == [i \in 1..16 |-> Num(IF i \in {1, 6, 11, 16} THEN 1 ELSE 0)]

(***************************************************************************)
(* Properties                                                              *)
(***************************************************************************)
\* C1: when the render matrix is a valid matrix M0, a change of the points
\* that makes the destination quadrilateral degenerate leaves the matrix
\* equal to M0.
C1_StableUnderDegeneracy ==
  [][(/\ ValidMatrix(matrix)
      /\ points' # points
      /\ WellFormed(points')
      /\ Degenerate(points')) => matrix' = matrix]_vars

\* a corner was dragged onto a degenerate position and the valid matrix was
\* replaced by the empty one
C1_MatrixLost ==
  /\ last.ev = "move"
  /\ NonZero(rect)
  /\ WellFormed(points) /\ Degenerate(points)
  /\ matrix = EmptyMatrix

\* C2: the points after a drag move of a corner differ from the points held
\* immediately before the move only in that corner, whatever was processed
\* between the drag start and the move.
C2_SingleCornerIsolation ==
  [][last'.ev = "move" =>
       \A c \in CornerNames \ last'.corners : points'[c] = points[c]]_vars

\* C3: after every event that changes the container's rectangle or the
\* points, and leaves a non-zero container and non-degenerate points, the
\* render matrix is the one computed from the current rectangle and points.
C3_MatrixFresh ==
  [][(/\ rect' # rect \/ points' # points
      /\ NonZero(rect')
      /\ WellFormed(points') /\ ~Degenerate(points'))
     => matrix' = computeCssMatrix(srcCorners(rect'), dstCorners(points'))]_vars

\* the container was resized and the matrix is still the one of the old size
C3_StaleAfterResize ==
  /\ last.ev = "resize"
  /\ NonZero(rect)
  /\ WellFormed(points) /\ ~Degenerate(points)
  /\ ValidMatrix(matrix)
  /\ matrix # computeCssMatrix(srcCorners(rect), dstCorners(points))

\* C4: under no storage key are points written before the value stored
\* under that key has been read.
C4_NoWriteBeforeLoad == \A k \in Keys : firstOp[k] # "set"

\* C5: when a storage key is supplied and the load attempt has completed,
\* the value stored under the key is the serialization of the current
\* points after every event.
C5_PersistenceFollows ==
  (storageKey # NoKey /\ hasHydrated) => store[storageKey] = JSONstringify(points)

\* a drag move changed the points of a hydrated component with a key
C5_MoveStored ==
  /\ last.ev = "move"
  /\ storageKey # NoKey /\ hasHydrated
  /\ \E c \in last.corners :
       /\ points[c] = Pt(180, 20)
       /\ store[storageKey].members[c] = Pt(180, 20)

\* C6: after a load attempt the attempt counts as completed; a stored value
\* that does not hold four corners leaves the points as they were.
C6_StoredValidated ==
  last.load.saved.kind # "unread" =>
    /\ hasHydrated
    /\ ~FourCornersStored(last.load.saved) => points = last.load.before

\* a stored object whose four members are not corners became the points
C6_NotCornersAccepted ==
  /\ last.ev = "mount"
  /\ last.load.saved = NotCorners
  /\ points = NotCorners.members

\* C7: while the points are not controlled and no stored points have been
\* loaded, a measurement of a non-zero container sets topRight, bottomRight
\* and bottomLeft to the corners of the container.
C7_AutoFitWhenDue ==
  [][(/\ last'.ev = "resize"
      /\ controlledPoints' = Undefined
      /\ ~loaded'
      /\ NonZero(rect'))
     => /\ points'.topRight = Pt(rect'.width, 0)
        /\ points'.bottomRight = Pt(rect'.width, rect'.height)
        /\ points'.bottomLeft = Pt(0, rect'.height)]_vars

\* a key whose store holds nothing: the resized container was not fitted
C7_NotFitted ==
  /\ last.ev = "resize"
  /\ controlledPoints = Undefined /\ ~loaded
  /\ storageKey = "K1"
  /\ NonZero(rect)
  /\ points.bottomRight # Pt(rect.width, rect.height)

\* C8: after a consumed measurement the points are the axis-aligned
\* rectangle of the container, topLeft at the origin.
C8_AutoFitPinsTopLeft ==
  [][(/\ last'.ev = "resize"
      /\ observerConnected(controlledPoints, hasHydrated)
      /\ NonZero(rect'))
     => points' = Rectangle(rect')]_vars

\* a measurement was consumed and topLeft is where a drag left it
C8_TopLeftKept ==
  /\ last.ev = "resize"
  /\ observerConnected(controlledPoints, hasHydrated)
  /\ NonZero(rect)
  /\ points.topRight = Pt(rect.width, 0)
  /\ points.bottomRight = Pt(rect.width, rect.height)
  /\ points.bottomLeft = Pt(0, rect.height)
  /\ points.topLeft # Pt(0, 0)

\* C9: a measurement of the container does not change the points while they
\* are controlled, nor after stored points have been loaded.
C9_AuthoritativeKept ==
  [][(last'.ev = "resize" /\ (controlledPoints # Undefined \/ loaded))
     => points' = points]_vars

\* a non-zero container was measured after stored points had been loaded,
\* and the points are not its rectangle
C9_ResizedAfterLoad ==
  /\ last.ev = "resize"
  /\ loaded /\ controlledPoints = Undefined
  /\ NonZero(rect)
  /\ points # Rectangle(rect)

\* the same, for controlled points
C9_ResizedControlled ==
  /\ last.ev = "resize"
  /\ controlledPoints # Undefined
  /\ NonZero(rect)
  /\ points = controlledPoints

\* C10: while the caller supplies the edit-mode value, the exposed edit mode
\* is the supplied value, and a toggle chord calls the caller's callback
\* once, with the negation of the exposed value.
C10_OwnedEditMode ==
  (editable # "undefined") =>
    /\ isEditMode(editable, localEditable) = (editable = "true")
    /\ (/\ last.ev = "keydown"
        /\ onEditableChange
        /\ ToggleChord(last.shift, last.key))
       => last.edits = << ~isEditMode(editable, localEditable) >>

\* Shift with a configured key whose name has a capital: nobody was called
C10_ChordIgnored ==
  /\ editable # "undefined" /\ onEditableChange
  /\ last.ev = "keydown" /\ last.shift
  /\ last.key \in toggleKeys
  /\ last.edits = <<>>

\* C11: while the caller supplies no edit-mode value, with or without a
\* callback, a toggle chord flips the exposed edit mode and any other key
\* press leaves it unchanged (it starts false, so after n chords it is true
\* exactly when n is odd).
C11_SelfManagedToggle ==
  [][(last'.ev = "keydown" /\ editable = "undefined")
     => isEditMode(editable', localEditable')
          = IF ToggleChord(last'.shift, last'.key)
              THEN ~isEditMode(editable, localEditable)
              ELSE isEditMode(editable, localEditable)]_vars

\* the first key press is Shift+p with toggle key p, no edit-mode value is
\* supplied but a callback is: the callback was called and edit mode is
\* still off
C11_ChordNotFlipped ==
  /\ steps = 1
  /\ last.ev = "keydown" /\ last.shift /\ last.key = "p"
  /\ "p" \in toggleKeys
  /\ editable = "undefined" /\ onEditableChange
  /\ last.edits = << TRUE >>
  /\ ~isEditMode(editable, localEditable)

\* C12: a pointer move changes the points only while the exposed edit mode
\* is true, also when edit mode was switched off in the middle of a drag.
C12_MoveOnlyInEditMode ==
  [][(last'.ev = "move" /\ ~isEditMode(editable, localEditable))
     => points' = points]_vars

\* edit mode is off and the onMove of a corner has just set the points
C12_MovedWhileOff ==
  /\ last.ev = "move"
  /\ ~isEditMode(editable, localEditable)
  /\ \E c \in last.corners : points = [DefaultPoints EXCEPT ![c] = Pt(180, 20)]

\* C17: a pointer move outside a drag (before any pointer down on a handle,
\* after a pointer up) neither changes the points nor calls onPointsChange,
\* and a pointer move inside a drag calls onPointsChange once, with exactly
\* the points that were set.
C17_DragBracketing ==
  [][last'.ev = "move"
     => IF listeners = <<>>
          THEN points' = points /\ last'.changes = <<>>
          ELSE last'.changes = << points' >>]_vars

\* one pointer move called onPointsChange twice, with different points
C17_NotifiedTwice ==
  /\ last.ev = "move"
  /\ Len(last.changes) = 2
  /\ last.changes[1] # last.changes[2]
  /\ points = last.changes[2]

\* C18: while the points are controlled from mount onwards, the store is
\* neither read nor written under any key, and after an external override
\* the internal points are the supplied points.
C18_ControlledBypassStorage ==
  /\ \A k \in Keys : firstOp[k] = "none"
  /\ ~hasHydrated
  /\ last.ev = "points" => points = controlledPoints

\* with a storage key and a drag in progress, the third event is the
\* caller supplying points again
C18_OverrideAfterDrag ==
  /\ last.ev = "points"
  /\ storageKey = "K1"
  /\ listeners # <<>>
  /\ steps = 3
  /\ points = controlledPoints

\* C14: no render matrix computed from well-formed points has an entry that
\* is NaN or an infinity: when the bottom-right entry of the un-normalized
\* homography is zero, nothing is divided by it.
C14_NoZeroNormalizer ==
  WellFormed(points) => \A i \in DOMAIN matrix : IsFinite(matrix[i])

\* a corner was dragged onto the opposite corner: the un-normalized
\* homography has a zero bottom-right entry and the entries of the render
\* matrix are the quotients by it
C14_DividedByZero ==
  /\ last.ev = "move"
  /\ NonZero(rect)
  /\ WellFormed(points)
  /\ matrix # EmptyMatrix
  /\ IsZero(unnormalized(srcCorners(rect), dstCorners(points))[8])
  /\ \A i \in {1, 2, 4, 5, 6, 8, 13, 14, 16} : ~IsFinite(matrix[i])

\* C13: for a source or destination quadrilateral with any three of its
\* four corners on one line, computeCssMatrix returns no matrix.
C13_DegeneracyDetected ==
  (returned # <<>> /\ (QuadDegenerate(srcPoints) \/ QuadDegenerate(dstPoints)))
    => returned[1] = EmptyMatrix

\* the unit square onto a quadrilateral whose fourth corner lies between the
\* first and the third: a matrix was returned
C13_FourthCornerCollinear ==
  /\ srcPoints = srcCorners(Size(1, 1))
  /\ dstPoints = Arr(<< Pt(0, 0), Pt(2, 0), Pt(2, 2), Pt(1, 1) >>)
  /\ returned # <<>>
  /\ returned[1] # EmptyMatrix

\* C15: for a container with non-zero sides and a destination quadrilateral
\* with no three corners on a line, the returned matrix takes each source
\* corner, after the perspective divide, exactly to the destination corner
\* of the same index.
C15_Correspondence ==
  (returned # <<>> /\ IsSourceRectangle(srcPoints) /\ ~QuadDegenerate(dstPoints))
    => /\ returned[1] # EmptyMatrix
       /\ \A i \in 0..3 : MapsTo(returned[1], srcPoints[i], dstPoints[i])

\* the example: (200, 0) goes to (180, 20) and (0, 0) to (0, 0)
C15_Example ==
  /\ << srcPoints, dstPoints >> = ExampleCall
  /\ returned # <<>>
  /\ MapsTo(returned[1], Pt(200, 0), Pt(180, 20))
  /\ MapsTo(returned[1], Pt(0, 0), Pt(0, 0))

\* a concave destination quadrilateral, its corners reached
C15_Concave ==
  /\ srcPoints = srcCorners(Size(2, 1))
  /\ dstPoints = Arr(<< Pt(0, 0), Pt(2, 1), Pt(1, 1), Pt(1, 2) >>)
  /\ returned # <<>>
  /\ \A i \in 0..3 : MapsTo(returned[1], srcPoints[i], dstPoints[i])

\* C16: for a quadrilateral with no three corners on a line, passed as
\* source and as destination, the normalised 3x3 matrix is the identity and
\* the returned 16-entry matrix is the 4x4 identity.
C16_Identity ==
  (returned # <<>> /\ srcPoints = dstPoints /\ ~QuadDegenerate(srcPoints))
    => /\ normalize(unnormalized(srcPoints, dstPoints)) = Identity3
       /\ returned[1] = Identity4

\* a crossed quadrilateral onto itself
C16_CrossedOntoItself ==
  /\ srcPoints = Arr(<< Pt(0, 0), Pt(2, 2), Pt(2, 0), Pt(0, 1) >>)
  /\ dstPoints = srcPoints
  /\ returned = << Identity4 >>

=============================================================================
